---- MODULE Spec2Model ----
(***************************************************************************)
(* Lane-based commit graph topology (webview-ui/src/utils/graphTopology.ts) *)
(* calculateTopology: one forward pass over the ordered commit list that    *)
(* assigns lanes and colours and records parent connections, followed by    *)
(* buildIncomingConnections, the maxLanes scan and computePassingLanes.     *)
(* Lanes are 0-based as in the source; activeLanes[l] of the source is      *)
(* LaneAt(activeLanes, l) here.  Maps are functions with a growing domain.  *)
(***************************************************************************)
EXTENDS Integers, Sequences, FiniteSets, TLC

\* ---- bounds of the checked inputs ----
MaxCommits == 5
MaxParents == 3
MaxLinks == 5

\* ---- values of the source ----
Null == 0
NotFound == -1
EmptyString == 0

VARIABLES commits, pc, i, commitIndexByHash, activeLanes, reservedLane,
          laneColors, nextColorIndex, reservedByHash, nodes, maxLanes,
          passingLanesByRow, published, store, call

vars == <<commits, pc, i, commitIndexByHash, activeLanes, reservedLane,
          laneColors, nextColorIndex, reservedByHash, nodes, maxLanes,
          passingLanesByRow, published, store, call>>

\* ---- Map helpers (JavaScript Map: get / set / delete / has) ----
EmptyMap == [x \in {} |-> 0]
MapHas(m, k) == k \in DOMAIN m
MapSet(m, k, v) == [x \in (DOMAIN m) \cup {k} |-> IF x = k THEN v ELSE m[x]]
MapDelete(m, k) == [x \in (DOMAIN m) \ {k} |-> m[x]]

\* ---- lane array helpers ----
LaneAt(lanes, l) == lanes[l + 1]
SetLane(lanes, l, v) == [lanes EXCEPT ![l + 1] = v]
Max(a, b) == IF a >= b THEN a ELSE b

\* ---- the inputs: ordered commit lists, newest first ----
\* Row r (1-based) carries hash r.  A parent is a hash greater than the
\* child's hash; a parent hash beyond the end of the list is a commit that
\* is not in the supplied window.
InjectiveSeqs(S, maxLen) ==
  UNION { { s \in [1..k -> S] : \A a, b \in 1..k : a # b => s[a] # s[b] } : k \in 0..maxLen }

LastHash(n) == IF n < MaxCommits THEN n + 1 ELSE n

Min(a, b) == IF a <= b THEN a ELSE b

\* ParentLists(r, n, links): the parent lists row r of an n-row list may carry
\* when `links` parent links are left to spend.
ParentLists(r, n, links) == InjectiveSeqs((r + 1)..LastHash(n), Min(MaxParents, links))

\* list is a commit list of n rows: some continuation of the rows in `rows`
\* by rows r..n that spends at most `links` parent links.
RECURSIVE IsCommitList(_, _, _, _, _)
IsCommitList(list, rows, r, n, links) ==
  IF r > n THEN list = rows
  ELSE \E ps \in ParentLists(r, n, links) :
         IsCommitList(list, Append(rows, [hash |-> r, parents |-> ps]), r + 1, n,
                      links - Len(ps))

\* ---- findAvailableLane / findAdjacentLane ----
\* Variant: the scan tests for an occupied slot instead of a free one.
findAvailableLaneOccupied(lanes) ==
  IF \E k \in 1..Len(lanes) : lanes[k] # Null
  THEN (CHOOSE k \in 1..Len(lanes) :
          lanes[k] # Null /\ \A j \in 1..(k - 1) : lanes[j] = Null) - 1
  ELSE Len(lanes)

\* Variant: a free lane is never taken again, a new lane is always appended.
findAvailableLaneAppend(lanes) == Len(lanes)

findAvailableLane(lanes) ==
  IF \E k \in 1..Len(lanes) : lanes[k] = Null
  THEN (CHOOSE k \in 1..Len(lanes) :
          lanes[k] = Null /\ \A j \in 1..(k - 1) : lanes[j] # Null) - 1
  ELSE Len(lanes)

\* Variant: the lane to the left is tried before the lane to the right.
findAdjacentLaneLeftFirst(lanes, nearLane) ==
  LET rightLane == nearLane + 1
  IN IF nearLane > 0 /\ LaneAt(lanes, nearLane - 1) = Null
     THEN nearLane - 1
     ELSE IF rightLane >= Len(lanes) \/ LaneAt(lanes, rightLane) = Null
          THEN rightLane
          ELSE findAvailableLane(lanes)

findAdjacentLane(lanes, nearLane) ==
  LET rightLane == nearLane + 1
  IN IF rightLane >= Len(lanes) \/ LaneAt(lanes, rightLane) = Null
     THEN rightLane
     ELSE IF nearLane > 0 /\ LaneAt(lanes, nearLane - 1) = Null
          THEN nearLane - 1
          ELSE findAvailableLane(lanes)

\* Variant: the first occurrence of a hash keeps its index.
BuildCommitIndexFirstWins(cs) ==
  [h \in { cs[r].hash : r \in 1..Len(cs) } |->
     (CHOOSE r \in 1..Len(cs) :
        cs[r].hash = h /\ \A q \in 1..(r - 1) : cs[q].hash # h) - 1]

\* ---- commit index: last write wins ----
BuildCommitIndex(cs) ==
  [h \in { cs[r].hash : r \in 1..Len(cs) } |->
     (CHOOSE r \in 1..Len(cs) :
        cs[r].hash = h /\ \A q \in (r + 1)..Len(cs) : cs[q].hash # h) - 1]

\* ---- reReserveParent ----
\* Variant: the patch rewrites the source lane of the connection.
PatchConnectionFromLane(conns, parentHash, oldLane, newLane) ==
  LET hit(k) == conns[k].parentHash = parentHash /\ conns[k].toLane = oldLane
  IN IF \E k \in 1..Len(conns) : hit(k)
     THEN LET k == CHOOSE k \in 1..Len(conns) : hit(k) /\ \A j \in 1..(k - 1) : ~hit(j)
          IN [conns EXCEPT ![k].fromLane = newLane]
     ELSE conns

\* Patch the first connection of conns that names parentHash on oldLane.
PatchConnection(conns, parentHash, oldLane, newLane) ==
  LET hit(k) == conns[k].parentHash = parentHash /\ conns[k].toLane = oldLane
  IN IF \E k \in 1..Len(conns) : hit(k)
     THEN LET k == CHOOSE k \in 1..Len(conns) : hit(k) /\ \A j \in 1..(k - 1) : ~hit(j)
          IN [conns EXCEPT ![k].toLane = newLane]
     ELSE conns

\* Variant: the old lane is not freed when the reservation moves.
reReserveParentKeepOld(st, parentHash, newLane, oldLane) ==
  LET lanes1 == SetLane(st.activeLanes, newLane, parentHash)
      hasPrev == MapHas(st.reservedByHash, parentHash)
      previousCommitHash == IF hasPrev THEN st.reservedByHash[parentHash] ELSE EmptyString
      nodes1 == IF hasPrev /\ previousCommitHash # EmptyString
                   /\ MapHas(st.nodes, previousCommitHash)
                THEN [st.nodes EXCEPT ![previousCommitHash].parentConnections =
                        PatchConnection(@, parentHash, oldLane, newLane)]
                ELSE st.nodes
  IN [st EXCEPT !.activeLanes = lanes1,
                !.reservedLane = MapSet(@, parentHash, newLane),
                !.nodes = nodes1,
                !.reservedByHash = MapSet(@, parentHash, EmptyString)]

reReserveParent(st, parentHash, newLane, oldLane) ==
  LET lanes1 == SetLane(SetLane(st.activeLanes, oldLane, Null), newLane, parentHash)
      hasPrev == MapHas(st.reservedByHash, parentHash)
      previousCommitHash == IF hasPrev THEN st.reservedByHash[parentHash] ELSE EmptyString
      nodes1 == IF hasPrev /\ previousCommitHash # EmptyString
                   /\ MapHas(st.nodes, previousCommitHash)
                THEN [st.nodes EXCEPT ![previousCommitHash].parentConnections =
                        PatchConnection(@, parentHash, oldLane, newLane)]
                ELSE st.nodes
  IN [st EXCEPT !.activeLanes = lanes1,
                !.reservedLane = MapSet(@, parentHash, newLane),
                !.nodes = nodes1,
                !.reservedByHash = MapSet(@, parentHash, EmptyString)]

Conn(parentHash, fromLane, toLane, colorIndex) ==
  [parentHash |-> parentHash, fromLane |-> fromLane, toLane |-> toLane,
   colorIndex |-> colorIndex]

\* Variant: the reservation moves to the child's lane whenever the lanes
\* differ, without the lower-lane test.
PrimaryParentAnyLane(st, hash, parentHash, assignedLane, colorIndex) ==
  LET hasExisting == MapHas(st.reservedLane, parentHash)
      existingLane == IF hasExisting THEN st.reservedLane[parentHash] ELSE NotFound
  IN IF hasExisting /\ existingLane # assignedLane
     THEN LET st1 == reReserveParent(st, parentHash, assignedLane, existingLane)
          IN [st1 EXCEPT !.parentConnections =
                Append(@, Conn(parentHash, assignedLane, assignedLane, colorIndex))]
     ELSE [st EXCEPT !.activeLanes = SetLane(@, assignedLane, parentHash),
                     !.reservedLane = MapSet(@, parentHash, assignedLane),
                     !.reservedByHash = MapSet(@, parentHash, hash),
                     !.parentConnections =
                        Append(@, Conn(parentHash, assignedLane, assignedLane, colorIndex))]

\* Variant: a reservation on another lane is never taken over.
PrimaryParentNeverMoves(st, hash, parentHash, assignedLane, colorIndex) ==
  LET hasExisting == MapHas(st.reservedLane, parentHash)
      existingLane == IF hasExisting THEN st.reservedLane[parentHash] ELSE NotFound
  IN IF hasExisting /\ existingLane # assignedLane
     THEN [st EXCEPT !.parentConnections =
             Append(@, Conn(parentHash, assignedLane, existingLane, colorIndex))]
     ELSE [st EXCEPT !.activeLanes = SetLane(@, assignedLane, parentHash),
                     !.reservedLane = MapSet(@, parentHash, assignedLane),
                     !.reservedByHash = MapSet(@, parentHash, hash),
                     !.parentConnections =
                        Append(@, Conn(parentHash, assignedLane, assignedLane, colorIndex))]

\* Variant: the comparison of the two lanes is reversed.
PrimaryParentHigherWins(st, hash, parentHash, assignedLane, colorIndex) ==
  LET hasExisting == MapHas(st.reservedLane, parentHash)
      existingLane == IF hasExisting THEN st.reservedLane[parentHash] ELSE NotFound
  IN IF hasExisting /\ existingLane # assignedLane
     THEN IF assignedLane > existingLane
          THEN LET st1 == reReserveParent(st, parentHash, assignedLane, existingLane)
               IN [st1 EXCEPT !.parentConnections =
                     Append(@, Conn(parentHash, assignedLane, assignedLane, colorIndex))]
          ELSE [st EXCEPT !.parentConnections =
                  Append(@, Conn(parentHash, assignedLane, existingLane, colorIndex))]
     ELSE [st EXCEPT !.activeLanes = SetLane(@, assignedLane, parentHash),
                     !.reservedLane = MapSet(@, parentHash, assignedLane),
                     !.reservedByHash = MapSet(@, parentHash, hash),
                     !.parentConnections =
                        Append(@, Conn(parentHash, assignedLane, assignedLane, colorIndex))]

\* ---- only parent / first parent of a merge ----
PrimaryParent(st, hash, parentHash, assignedLane, colorIndex) ==
  LET hasExisting == MapHas(st.reservedLane, parentHash)
      existingLane == IF hasExisting THEN st.reservedLane[parentHash] ELSE NotFound
  IN IF hasExisting /\ existingLane # assignedLane
     THEN IF assignedLane < existingLane
          THEN LET st1 == reReserveParent(st, parentHash, assignedLane, existingLane)
               IN [st1 EXCEPT !.parentConnections =
                     Append(@, Conn(parentHash, assignedLane, assignedLane, colorIndex))]
          ELSE [st EXCEPT !.parentConnections =
                  Append(@, Conn(parentHash, assignedLane, existingLane, colorIndex))]
     ELSE [st EXCEPT !.activeLanes = SetLane(@, assignedLane, parentHash),
                     !.reservedLane = MapSet(@, parentHash, assignedLane),
                     !.reservedByHash = MapSet(@, parentHash, hash),
                     !.parentConnections =
                        Append(@, Conn(parentHash, assignedLane, assignedLane, colorIndex))]

\* Variant: the colour counter is not advanced for a new branch lane.
SecondaryParentSameColour(st, parentHash, assignedLane, colorIndex) ==
  IF MapHas(st.reservedLane, parentHash)
  THEN LET existingLane == st.reservedLane[parentHash]
           parentColor == IF MapHas(st.laneColors, existingLane)
                          THEN st.laneColors[existingLane] ELSE colorIndex
       IN [st EXCEPT !.parentConnections =
             Append(@, Conn(parentHash, assignedLane, existingLane, parentColor))]
  ELSE LET branchLane == findAdjacentLane(st.activeLanes, assignedLane)
           lanes0 == IF branchLane = Len(st.activeLanes)
                     THEN Append(st.activeLanes, Null) ELSE st.activeLanes
           fresh == ~MapHas(st.laneColors, branchLane)
           colors1 == IF fresh THEN MapSet(st.laneColors, branchLane, st.nextColorIndex)
                      ELSE st.laneColors
       IN [st EXCEPT !.activeLanes = SetLane(lanes0, branchLane, parentHash),
                     !.reservedLane = MapSet(@, parentHash, branchLane),
                     !.laneColors = colors1,
                     !.parentConnections =
                        Append(@, Conn(parentHash, assignedLane, branchLane, colors1[branchLane]))]

\* ---- secondary parent of a merge (position >= 1) ----
SecondaryParent(st, parentHash, assignedLane, colorIndex) ==
  IF MapHas(st.reservedLane, parentHash)
  THEN LET existingLane == st.reservedLane[parentHash]
           parentColor == IF MapHas(st.laneColors, existingLane)
                          THEN st.laneColors[existingLane] ELSE colorIndex
       IN [st EXCEPT !.parentConnections =
             Append(@, Conn(parentHash, assignedLane, existingLane, parentColor))]
  ELSE LET branchLane == findAdjacentLane(st.activeLanes, assignedLane)
           lanes0 == IF branchLane = Len(st.activeLanes)
                     THEN Append(st.activeLanes, Null) ELSE st.activeLanes
           fresh == ~MapHas(st.laneColors, branchLane)
           colors1 == IF fresh THEN MapSet(st.laneColors, branchLane, st.nextColorIndex)
                      ELSE st.laneColors
       IN [st EXCEPT !.activeLanes = SetLane(lanes0, branchLane, parentHash),
                     !.reservedLane = MapSet(@, parentHash, branchLane),
                     !.laneColors = colors1,
                     !.nextColorIndex = IF fresh THEN @ + 1 ELSE @,
                     !.parentConnections =
                        Append(@, Conn(parentHash, assignedLane, branchLane, colors1[branchLane]))]

\* Variant: the parents of a merge are not tested for presence in the list.
RECURSIVE MergeParentsAll(_, _, _, _, _, _)
MergeParentsAll(st, hash, parents, p, assignedLane, colorIndex) ==
  IF p >= Len(parents) THEN st
  ELSE LET parentHash == parents[p + 1]
           st1 == IF p = 0
                  THEN PrimaryParent(st, hash, parentHash, assignedLane, colorIndex)
                  ELSE SecondaryParent(st, parentHash, assignedLane, colorIndex)
       IN MergeParentsAll(st1, hash, parents, p + 1, assignedLane, colorIndex)

RECURSIVE MergeParents(_, _, _, _, _, _)
MergeParents(st, hash, parents, p, assignedLane, colorIndex) ==
  IF p >= Len(parents) THEN st
  ELSE LET parentHash == parents[p + 1]
           st1 == IF ~MapHas(commitIndexByHash, parentHash) THEN st
                  ELSE IF p = 0
                       THEN PrimaryParent(st, hash, parentHash, assignedLane, colorIndex)
                       ELSE SecondaryParent(st, parentHash, assignedLane, colorIndex)
       IN MergeParents(st1, hash, parents, p + 1, assignedLane, colorIndex)

\* Variant: the reservation of the visited hash is not consulted.
AssignedLaneFirstFree(lanes, reserved, hash) ==
  findAvailableLane(lanes)

\* ---- lane assignment of the visited commit ----
AssignedLane(lanes, reserved, hash) ==
  IF MapHas(reserved, hash) THEN reserved[hash]
  ELSE IF \E k \in 1..Len(lanes) : lanes[k] = hash
       THEN (CHOOSE k \in 1..Len(lanes) :
               lanes[k] = hash /\ \A j \in 1..(k - 1) : lanes[j] # hash) - 1
       ELSE findAvailableLane(lanes)

\* Variant: the visited commit's reservation is not cleared.
PlaceCommitKeepReservation(commit) ==
  LET hash == commit.hash
      assignedLane == AssignedLane(activeLanes, reservedLane, hash)
      lanes0 == IF assignedLane = Len(activeLanes)
                THEN Append(activeLanes, Null) ELSE activeLanes
      fresh == ~MapHas(laneColors, assignedLane)
      colors1 == IF fresh THEN MapSet(laneColors, assignedLane, nextColorIndex)
                 ELSE laneColors
  IN [activeLanes |-> lanes0,
      reservedLane |-> reservedLane,
      laneColors |-> colors1,
      nextColorIndex |-> IF fresh THEN nextColorIndex + 1 ELSE nextColorIndex,
      reservedByHash |-> reservedByHash,
      nodes |-> nodes,
      parentConnections |-> << >>]

\* Variant: every placed commit takes a new colour for its lane.
PlaceCommitRecolour(commit) ==
  LET hash == commit.hash
      assignedLane == AssignedLane(activeLanes, reservedLane, hash)
      lanes0 == IF assignedLane = Len(activeLanes)
                THEN Append(activeLanes, Null) ELSE activeLanes
  IN [activeLanes |-> SetLane(lanes0, assignedLane, Null),
      reservedLane |-> MapDelete(reservedLane, hash),
      laneColors |-> MapSet(laneColors, assignedLane, nextColorIndex),
      nextColorIndex |-> nextColorIndex + 1,
      reservedByHash |-> reservedByHash,
      nodes |-> nodes,
      parentConnections |-> << >>]

\* ---- placement of the visited commit: lane, clear, colour ----
PlaceCommit(commit) ==
  LET hash == commit.hash
      assignedLane == AssignedLane(activeLanes, reservedLane, hash)
      lanes0 == IF assignedLane = Len(activeLanes)
                THEN Append(activeLanes, Null) ELSE activeLanes
      fresh == ~MapHas(laneColors, assignedLane)
      colors1 == IF fresh THEN MapSet(laneColors, assignedLane, nextColorIndex)
                 ELSE laneColors
  IN [activeLanes |-> SetLane(lanes0, assignedLane, Null),
      reservedLane |-> MapDelete(reservedLane, hash),
      laneColors |-> colors1,
      nextColorIndex |-> IF fresh THEN nextColorIndex + 1 ELSE nextColorIndex,
      reservedByHash |-> reservedByHash,
      nodes |-> nodes,
      parentConnections |-> << >>]

\* ---- one iteration of the forward pass ----
RowResult(commit) ==
  LET hash == commit.hash
      parents == commit.parents
      assignedLane == AssignedLane(activeLanes, reservedLane, hash)
      st0 == PlaceCommit(commit)
      colorIndex == st0.laneColors[assignedLane]
      st1 == IF Len(parents) = 0 THEN st0
             ELSE IF Len(parents) = 1
                  THEN IF MapHas(commitIndexByHash, parents[1])
                       THEN PrimaryParent(st0, hash, parents[1], assignedLane, colorIndex)
                       ELSE st0
                  ELSE MergeParents(st0, hash, parents, 0, assignedLane, colorIndex)
      node == [hash |-> hash, lane |-> assignedLane, colorIndex |-> colorIndex,
               parentConnections |-> st1.parentConnections,
               incomingConnections |-> << >>,
               hasConnectionFromAbove |-> FALSE]
  IN [st1 EXCEPT !.nodes = MapSet(@, hash, node)]

\* ---- buildIncomingConnections ----
\* Variant: the incoming line always arrives on the connection's toLane.
IncomingLaneToLane(conn, isMergeCommit) == conn.toLane

IncomingLane(conn, isMergeCommit) ==
  IF conn.fromLane = conn.toLane THEN conn.toLane
  ELSE IF isMergeCommit THEN conn.toLane ELSE conn.fromLane

\* All parent connections in the order the two nested loops visit them.
RECURSIVE ConnectionsFrom(_, _, _)
ConnectionsFrom(cs, ns, r) ==
  IF r > Len(cs) THEN << >>
  ELSE LET node == ns[cs[r].hash]
           isMergeCommit == Len(cs[r].parents) > 1
           mine == [k \in 1..Len(node.parentConnections) |->
                      [conn |-> node.parentConnections[k],
                       incomingLane |-> IncomingLane(node.parentConnections[k], isMergeCommit)]]
       IN mine \o ConnectionsFrom(cs, ns, r + 1)

\* Variant: the flag compares the child's lane, not the lane the line arrives on.
buildIncomingConnectionsChildLane(cs, ns, index) ==
  LET all == SelectSeq(ConnectionsFrom(cs, ns, 1),
                       LAMBDA e : MapHas(index, e.conn.parentHash) /\ MapHas(ns, e.conn.parentHash))
      incomingOf(h) == LET sel == SelectSeq(all, LAMBDA e : e.conn.parentHash = h)
                       IN [k \in 1..Len(sel) |->
                             [fromLane |-> sel[k].incomingLane,
                              colorIndex |-> sel[k].conn.colorIndex]]
      sameLane(h) == \E k \in 1..Len(all) :
                        all[k].conn.parentHash = h /\ all[k].conn.fromLane = ns[h].lane
  IN [h \in DOMAIN ns |->
        [ns[h] EXCEPT !.incomingConnections = incomingOf(h),
                      !.hasConnectionFromAbove = sameLane(h)]]

buildIncomingConnections(cs, ns, index) ==
  LET all == SelectSeq(ConnectionsFrom(cs, ns, 1),
                       LAMBDA e : MapHas(index, e.conn.parentHash) /\ MapHas(ns, e.conn.parentHash))
      incomingOf(h) == LET sel == SelectSeq(all, LAMBDA e : e.conn.parentHash = h)
                       IN [k \in 1..Len(sel) |->
                             [fromLane |-> sel[k].incomingLane,
                              colorIndex |-> sel[k].conn.colorIndex]]
      sameLane(h) == \E k \in 1..Len(all) :
                        all[k].conn.parentHash = h /\ all[k].incomingLane = ns[h].lane
  IN [h \in DOMAIN ns |->
        [ns[h] EXCEPT !.incomingConnections = incomingOf(h),
                      !.hasConnectionFromAbove = sameLane(h)]]

\* ---- maxLanes ----
RECURSIVE SeqMax(_, _)
SeqMax(s, acc) == IF s = << >> THEN acc ELSE SeqMax(Tail(s), Max(acc, Head(s)))

RECURSIVE SetMax(_, _)
SetMax(S, acc) ==
  IF S = {} THEN acc
  ELSE LET x == CHOOSE x \in S : TRUE IN SetMax(S \ {x}, Max(acc, x))

\* Variant: only node lanes are scanned, not the connections' toLane.
CalcMaxLanesNodesOnly(ns) == SetMax({ ns[h].lane + 1 : h \in DOMAIN ns }, 1)

CalcMaxLanes(ns) ==
  SetMax({ Max(ns[h].lane + 1,
               SeqMax([k \in 1..Len(ns[h].parentConnections) |->
                         ns[h].parentConnections[k].toLane + 1], 1)) : h \in DOMAIN ns }, 1)

\* ---- computePassingLanes ----
\* activeConnections is a Map in insertion order: a sequence of entries
\* [lane, connections], connections a sequence of [colorIndex, endRowIndex].
\* Variant: a cross-lane connection of a merge commit is kept on the child's lane.
ContinuationLaneChildLane(conn, isMergeCommit) ==
  IF conn.fromLane = conn.toLane THEN conn.toLane ELSE conn.fromLane

ContinuationLane(conn, isMergeCommit) ==
  IF conn.fromLane = conn.toLane THEN conn.toLane
  ELSE IF isMergeCommit THEN conn.toLane ELSE conn.fromLane

\* Variant: a connection still counts as passing at its end row.
EmitPassingInclusive(active, currentLane, row) ==
  LET open(e) == e.lane # currentLane
                 /\ \E k \in 1..Len(e.connections) : row <= e.connections[k].endRowIndex
      sel == SelectSeq(active, open)
  IN [k \in 1..Len(sel) |->
        [lane |-> sel[k].lane,
         colorIndex |-> (LET cs == sel[k].connections
                             first == CHOOSE a \in 1..Len(cs) :
                                        row <= cs[a].endRowIndex
                                        /\ \A b \in 1..(a - 1) : ~(row <= cs[b].endRowIndex)
                         IN cs[first].colorIndex)]]

EmitPassing(active, currentLane, row) ==
  LET open(e) == e.lane # currentLane
                 /\ \E k \in 1..Len(e.connections) : row < e.connections[k].endRowIndex
      sel == SelectSeq(active, open)
  IN [k \in 1..Len(sel) |->
        [lane |-> sel[k].lane,
         colorIndex |-> (LET cs == sel[k].connections
                             first == CHOOSE a \in 1..Len(cs) :
                                        row < cs[a].endRowIndex
                                        /\ \A b \in 1..(a - 1) : ~(row < cs[b].endRowIndex)
                         IN cs[first].colorIndex)]]

AddActive(active, lane, item) ==
  IF \E k \in 1..Len(active) : active[k].lane = lane
  THEN [k \in 1..Len(active) |->
          IF active[k].lane = lane
          THEN [active[k] EXCEPT !.connections = Append(@, item)]
          ELSE active[k]]
  ELSE Append(active, [lane |-> lane, connections |-> << item >>])

RECURSIVE RegisterConnections(_, _, _, _, _, _)
RegisterConnections(active, conns, k, isMergeCommit, row, index) ==
  IF k > Len(conns) THEN active
  ELSE LET conn == conns[k]
           ahead == MapHas(index, conn.parentHash) /\ index[conn.parentHash] > row
           active1 == IF ahead
                      THEN AddActive(active, ContinuationLane(conn, isMergeCommit),
                                     [colorIndex |-> conn.colorIndex,
                                      endRowIndex |-> index[conn.parentHash]])
                      ELSE active
       IN RegisterConnections(active1, conns, k + 1, isMergeCommit, row, index)

PruneActive(active, row) ==
  LET kept == [k \in 1..Len(active) |->
                 [active[k] EXCEPT !.connections =
                    SelectSeq(@, LAMBDA c : c.endRowIndex > row)]]
  IN SelectSeq(kept, LAMBDA e : e.connections # << >>)

RECURSIVE PassingFrom(_, _, _, _, _)
PassingFrom(cs, ns, index, row, active) ==
  IF row >= Len(cs) THEN << >>
  ELSE LET commit == cs[row + 1]
           node == ns[commit.hash]
           passingLanes == EmitPassing(active, node.lane, row)
           active1 == RegisterConnections(active, node.parentConnections, 1,
                                          Len(commit.parents) > 1, row, index)
           active2 == PruneActive(active1, row)
       IN << passingLanes >> \o PassingFrom(cs, ns, index, row + 1, active2)

\* passingLanesByRow as a sequence: entry r + 1 is the list of row r.
computePassingLanes(cs, ns, index) == PassingFrom(cs, ns, index, 0, << >>)

\* ---- the state machine ----
\* The GraphTopology value a call returns.
GraphTopology(ns, lanes, passing, index) ==
  [nodes |-> ns, maxLanes |-> lanes, passingLanesByRow |-> passing,
   commitIndexByHash |-> index]

\* Variant: the colour counter outlives the call.
StaleLocals ==
  [activeLanes |-> << >>, reservedLane |-> EmptyMap, laneColors |-> EmptyMap,
   nextColorIndex |-> nextColorIndex, reservedByHash |-> EmptyMap, nodes |-> EmptyMap]

\* The locals calculateTopology declares before its forward loop.
FreshLocals ==
  [activeLanes |-> << >>, reservedLane |-> EmptyMap, laneColors |-> EmptyMap,
   nextColorIndex |-> 0, reservedByHash |-> EmptyMap, nodes |-> EmptyMap]

\* ---- the graph store around the engine (initial state) ----
emptyTopology == GraphTopology(EmptyMap, 0, << >>, EmptyMap)

InitialStore ==
  [commits |-> << >>, stashes |-> << >>, mergedCommits |-> << >>,
   topology |-> emptyTopology, loading |-> TRUE, detailsPanelPosition |-> "bottom"]

\* No store action is running.
NoCall == [kind |-> "none", arg |-> << >>, input |-> << >>, merged |-> << >>]

\* Before the call: nothing is computed yet.
NoTopologyYet ==
  /\ i = 0
  /\ commitIndexByHash = EmptyMap
  /\ activeLanes = << >>
  /\ reservedLane = EmptyMap
  /\ laneColors = EmptyMap
  /\ nextColorIndex = 0
  /\ reservedByHash = EmptyMap
  /\ nodes = EmptyMap
  /\ maxLanes = 0
  /\ passingLanesByRow = << >>
  /\ published = << >>
  /\ store = InitialStore
  /\ call = NoCall

NothingComputed ==
  /\ pc = "start"
  /\ NoTopologyYet

Init ==
  /\ \E n \in 0..MaxCommits : IsCommitList(commits, << >>, 1, n, MaxLinks)
  /\ NothingComputed

\* Variant: a list with a repeated hash is refused.
StartRejectDuplicates ==
  /\ pc = "start"
  /\ LET locals == FreshLocals
     IN /\ activeLanes' = locals.activeLanes
        /\ reservedLane' = locals.reservedLane
        /\ laneColors' = locals.laneColors
        /\ nextColorIndex' = locals.nextColorIndex
        /\ reservedByHash' = locals.reservedByHash
        /\ nodes' = locals.nodes
  /\ i' = 0
  /\ IF Len(commits) = 0
     THEN /\ pc' = "done"
          /\ commitIndexByHash' = EmptyMap
          /\ maxLanes' = 0
          /\ passingLanesByRow' = << >>
          /\ published' = Append(published,
                 [commits |-> commits,
                  topology |-> GraphTopology(EmptyMap, 0, << >>, EmptyMap)])
     ELSE /\ pc' = IF \E a, b \in 1..Len(commits) : a # b /\ commits[a].hash = commits[b].hash
                   THEN "raised" ELSE "forward"
          /\ commitIndexByHash' = BuildCommitIndex(commits)
          /\ UNCHANGED <<maxLanes, passingLanesByRow, published>>
  /\ UNCHANGED <<commits, store, call>>

\* Variant: no early return for the empty list.
StartNoEarlyReturn ==
  /\ pc = "start"
  /\ LET locals == FreshLocals
     IN /\ activeLanes' = locals.activeLanes
        /\ reservedLane' = locals.reservedLane
        /\ laneColors' = locals.laneColors
        /\ nextColorIndex' = locals.nextColorIndex
        /\ reservedByHash' = locals.reservedByHash
        /\ nodes' = locals.nodes
  /\ i' = 0
  /\ pc' = "forward"
  /\ commitIndexByHash' = BuildCommitIndex(commits)
  /\ UNCHANGED <<maxLanes, passingLanesByRow, published>>
  /\ UNCHANGED <<commits, store, call>>

\* calculateTopology entry: empty input returns at once, else build the index
\* and declare the locals of the forward pass.
Start ==
  /\ pc = "start"
  /\ LET locals == FreshLocals
     IN /\ activeLanes' = locals.activeLanes
        /\ reservedLane' = locals.reservedLane
        /\ laneColors' = locals.laneColors
        /\ nextColorIndex' = locals.nextColorIndex
        /\ reservedByHash' = locals.reservedByHash
        /\ nodes' = locals.nodes
  /\ i' = 0
  /\ IF Len(commits) = 0
     THEN /\ pc' = "done"
          /\ commitIndexByHash' = EmptyMap
          /\ maxLanes' = 0
          /\ passingLanesByRow' = << >>
          /\ published' = Append(published,
                 [commits |-> commits,
                  topology |-> GraphTopology(EmptyMap, 0, << >>, EmptyMap)])
     ELSE /\ pc' = "forward"
          /\ commitIndexByHash' = BuildCommitIndex(commits)
          /\ UNCHANGED <<maxLanes, passingLanesByRow, published>>
  /\ UNCHANGED <<commits, store, call>>

\* One iteration of the forward loop, for row i.
VisitRow ==
  /\ pc = "forward"
  /\ i < Len(commits)
  /\ LET st == RowResult(commits[i + 1])
     IN /\ activeLanes' = st.activeLanes
        /\ reservedLane' = st.reservedLane
        /\ laneColors' = st.laneColors
        /\ nextColorIndex' = st.nextColorIndex
        /\ reservedByHash' = st.reservedByHash
        /\ nodes' = st.nodes
  /\ i' = i + 1
  /\ UNCHANGED <<commits, pc, commitIndexByHash, maxLanes, passingLanesByRow, published,
                 store, call>>

\* End of the forward loop: second pass over the finalized connections.
BuildIncoming ==
  /\ pc = "forward"
  /\ i = Len(commits)
  /\ nodes' = buildIncomingConnections(commits, nodes, commitIndexByHash)
  /\ pc' = "incoming"
  /\ UNCHANGED <<commits, i, commitIndexByHash, activeLanes, reservedLane, laneColors,
                 nextColorIndex, reservedByHash, maxLanes, passingLanesByRow, published,
                 store, call>>

\* maxLanes, computePassingLanes and the return of the topology.
Finish ==
  /\ pc = "incoming"
  /\ maxLanes' = CalcMaxLanes(nodes)
  /\ passingLanesByRow' = computePassingLanes(commits, nodes, commitIndexByHash)
  /\ pc' = "done"
  /\ published' = Append(published,
         [commits |-> commits,
          topology |-> GraphTopology(nodes, maxLanes', passingLanesByRow', commitIndexByHash)])
  /\ UNCHANGED <<commits, i, commitIndexByHash, activeLanes, reservedLane, laneColors,
                 nextColorIndex, reservedByHash, nodes, store, call>>

Next == Start \/ VisitRow \/ BuildIncoming \/ Finish

Spec == Init /\ [][Next]_vars

\* ---- repeated recomputation ----
\* The surrounding store calls calculateTopology again whenever its input
\* changes; each call is handed a list and runs to completion.  Here: a first
\* call, a call on another list, and a call on the first list again.
MaxRerunCommits == 3
MaxOtherCommits == 1

InitRerun ==
  /\ \E n \in 0..MaxRerunCommits : IsCommitList(commits, << >>, 1, n, MaxLinks)
  /\ NothingComputed

RecomputeOther ==
  /\ pc = "done"
  /\ Len(published) = 1
  /\ \E n \in 0..MaxOtherCommits : IsCommitList(commits', << >>, 1, n, MaxLinks)
  /\ pc' = "start"
  /\ UNCHANGED <<i, commitIndexByHash, activeLanes, reservedLane, laneColors,
                 nextColorIndex, reservedByHash, nodes, maxLanes, passingLanesByRow,
                 published, store, call>>

RecomputeSame ==
  /\ pc = "done"
  /\ Len(published) = 2
  /\ commits' = published[1].commits
  /\ pc' = "start"
  /\ UNCHANGED <<i, commitIndexByHash, activeLanes, reservedLane, laneColors,
                 nextColorIndex, reservedByHash, nodes, maxLanes, passingLanesByRow,
                 published, store, call>>

NextRerun == Start \/ VisitRow \/ BuildIncoming \/ Finish \/ RecomputeOther \/ RecomputeSame

SpecRerun == InitRerun /\ [][NextRerun]_vars

\* ---- lists that break the input contract ----
\* Any list of up to MaxAnyCommits rows: a hash may repeat, and a parent may
\* be any hash: the commit itself, a commit of an earlier row, a commit of a
\* later row, or a hash that no row carries (n + 1 is never a row's hash).
\* Hashes are named in order of first appearance.
MaxAnyCommits == 3
MaxAnyLinks == 3

AnySeqs(S, maxLen) == UNION { [1..k -> S] : k \in 0..maxLen }

RECURSIVE IsAnyCommitList(_, _, _, _, _, _)
IsAnyCommitList(list, rows, r, n, links, top) ==
  IF r > n THEN list = rows
  ELSE \E h \in 1..(top + 1) :
         \E ps \in AnySeqs(1..(n + 1), Min(MaxParents, links)) :
           IsAnyCommitList(list, Append(rows, [hash |-> h, parents |-> ps]), r + 1, n,
                           links - Len(ps), Max(top, h))

InitAny ==
  /\ \E n \in 0..MaxAnyCommits : IsAnyCommitList(commits, << >>, 1, n, MaxAnyLinks, 0)
  /\ NothingComputed

\* The call is synchronous: once entered it runs on to its return.
SpecTotal == InitAny /\ [][Next]_vars /\ WF_vars(Next)

\* ---- the graph store: setCommits, setStashes and the other setters ----
\* A store action runs to its end before the next one starts (pc = "idle"
\* between actions).  `call` is the action in progress: arg is the value the
\* caller passed, input is the array mergeStashesIntoCommits was handed, as it
\* is after that call, merged is the array it returned.
MaxStoreCommits == 2
MaxStoreLinks == 1
MaxStashes == 1

RECURSIVE CommitListsFrom(_, _, _)
CommitListsFrom(r, n, links) ==
  IF r > n THEN { << >> }
  ELSE UNION { { << [hash |-> r, parents |-> ps] >> \o rest :
                   rest \in CommitListsFrom(r + 1, n, links - Len(ps)) } :
               ps \in ParentLists(r, n, links) }

StoreCommitLists ==
  UNION { CommitListsFrom(1, n, MaxStoreLinks) : n \in 0..MaxStoreCommits }

\* Stash k of a list has its own hash; its parent is a commit hash that may
\* or may not be in the store's list.
StashHash(k) == MaxStoreCommits + 1 + k

StashLists ==
  UNION { { [k \in 1..n |-> [hash |-> StashHash(k), parentHash |-> f[k]]] :
              f \in [1..n -> 1..(MaxStoreCommits + 1)] } : n \in 0..MaxStashes }

\* ---- mergeStashesIntoCommits ----
Splice(list, index, x) ==
  SubSeq(list, 1, index) \o << x >> \o SubSeq(list, index + 1, Len(list))

StashInsertions(index, stashes) ==
  [k \in 1..Len(stashes) |->
     [index |-> IF MapHas(index, stashes[k].parentHash)
                THEN index[stashes[k].parentHash] ELSE 0,
      commit |-> [hash |-> stashes[k].hash, parents |-> << stashes[k].parentHash >>]]]

\* Variant: the insertions are sorted by ascending index.
InsertAscending(sorted, e) ==
  LET k == Cardinality({ j \in 1..Len(sorted) : sorted[j].index <= e.index })
  IN SubSeq(sorted, 1, k) \o << e >> \o SubSeq(sorted, k + 1, Len(sorted))

\* Array.prototype.sort is stable: equal indices keep their order.
InsertDescending(sorted, e) ==
  LET k == Cardinality({ j \in 1..Len(sorted) : sorted[j].index >= e.index })
  IN SubSeq(sorted, 1, k) \o << e >> \o SubSeq(sorted, k + 1, Len(sorted))

RECURSIVE SortDescending(_, _, _)
SortDescending(insertions, k, sorted) ==
  IF k > Len(insertions) THEN sorted
  ELSE SortDescending(insertions, k + 1, InsertDescending(sorted, insertions[k]))

RECURSIVE SpliceAll(_, _, _)
SpliceAll(merged, insertions, k) ==
  IF k > Len(insertions) THEN merged
  ELSE SpliceAll(Splice(merged, insertions[k].index, insertions[k].commit), insertions, k + 1)

\* Variant: the stash rows are spliced into the array that was passed in.
mergeStashesInPlace(cs, stashes) ==
  IF Len(stashes) = 0 THEN [commits |-> cs, merged |-> cs]
  ELSE LET insertions == StashInsertions(BuildCommitIndex(cs), stashes)
           merged == SpliceAll(cs, SortDescending(insertions, 1, << >>), 1)
       IN [commits |-> merged, merged |-> merged]

\* The result (merged) and the array that was passed in as the call leaves it
\* (commits): the rows are spliced into a copy.
mergeStashesIntoCommits(cs, stashes) ==
  IF Len(stashes) = 0 THEN [commits |-> cs, merged |-> cs]
  ELSE LET insertions == StashInsertions(BuildCommitIndex(cs), stashes)
           merged == SpliceAll(cs, SortDescending(insertions, 1, << >>), 1)
       IN [commits |-> cs, merged |-> merged]

\* ---- store actions ----
InitStore ==
  /\ commits = << >>
  /\ pc = "idle"
  /\ NoTopologyYet

\* setCommits up to the call of calculateTopology.
setCommits(newCommits) ==
  /\ pc = "idle"
  /\ LET effect == mergeStashesIntoCommits(newCommits, store.stashes)
     IN /\ call' = [kind |-> "setCommits", arg |-> newCommits, input |-> effect.commits,
                   merged |-> effect.merged]
        /\ commits' = effect.merged
  /\ pc' = "start"
  /\ published' = << >>
  /\ UNCHANGED <<i, commitIndexByHash, activeLanes, reservedLane, laneColors,
                 nextColorIndex, reservedByHash, nodes, maxLanes, passingLanesByRow, store>>

\* setCommits: set({ commits, mergedCommits, topology }).
setCommitsDone ==
  /\ pc = "done"
  /\ call.kind = "setCommits"
  /\ store' = [store EXCEPT !.commits = call.input,
                            !.mergedCommits = call.merged,
                            !.topology = published[Len(published)].topology]
  /\ pc' = "idle"
  /\ call' = NoCall
  /\ UNCHANGED <<commits, i, commitIndexByHash, activeLanes, reservedLane, laneColors,
                 nextColorIndex, reservedByHash, nodes, maxLanes, passingLanesByRow,
                 published>>

\* Variant: the topology is computed from the unmerged commits.
setStashesUnmerged(newStashes) ==
  /\ pc = "idle"
  /\ LET effect == mergeStashesIntoCommits(store.commits, newStashes)
     IN /\ call' = [kind |-> "setStashes", arg |-> newStashes, input |-> effect.commits,
                   merged |-> effect.merged]
        /\ commits' = store.commits
        /\ store' = [store EXCEPT !.commits = effect.commits]
  /\ pc' = "start"
  /\ published' = << >>
  /\ UNCHANGED <<i, commitIndexByHash, activeLanes, reservedLane, laneColors,
                 nextColorIndex, reservedByHash, nodes, maxLanes, passingLanesByRow>>

\* setStashes up to the call of calculateTopology.  The array handed to
\* mergeStashesIntoCommits is the store's own commits array.
setStashes(newStashes) ==
  /\ pc = "idle"
  /\ LET effect == mergeStashesIntoCommits(store.commits, newStashes)
     IN /\ call' = [kind |-> "setStashes", arg |-> newStashes, input |-> effect.commits,
                   merged |-> effect.merged]
        /\ commits' = effect.merged
        /\ store' = [store EXCEPT !.commits = effect.commits]
  /\ pc' = "start"
  /\ published' = << >>
  /\ UNCHANGED <<i, commitIndexByHash, activeLanes, reservedLane, laneColors,
                 nextColorIndex, reservedByHash, nodes, maxLanes, passingLanesByRow>>

\* setStashes: set({ stashes, mergedCommits, topology }).
setStashesDone ==
  /\ pc = "done"
  /\ call.kind = "setStashes"
  /\ store' = [store EXCEPT !.stashes = call.arg,
                            !.mergedCommits = call.merged,
                            !.topology = published[Len(published)].topology]
  /\ pc' = "idle"
  /\ call' = NoCall
  /\ UNCHANGED <<commits, i, commitIndexByHash, activeLanes, reservedLane, laneColors,
                 nextColorIndex, reservedByHash, nodes, maxLanes, passingLanesByRow,
                 published>>

setLoading(loading) ==
  /\ pc = "idle"
  /\ store' = [store EXCEPT !.loading = loading]
  /\ UNCHANGED <<commits, pc, i, commitIndexByHash, activeLanes, reservedLane, laneColors,
                 nextColorIndex, reservedByHash, nodes, maxLanes, passingLanesByRow,
                 published, call>>

toggleDetailsPanelPosition ==
  /\ pc = "idle"
  /\ store' = [store EXCEPT !.detailsPanelPosition =
                              IF @ = "bottom" THEN "right" ELSE "bottom"]
  /\ UNCHANGED <<commits, pc, i, commitIndexByHash, activeLanes, reservedLane, laneColors,
                 nextColorIndex, reservedByHash, nodes, maxLanes, passingLanesByRow,
                 published, call>>

NextStore ==
  \/ \E newCommits \in StoreCommitLists : setCommits(newCommits)
  \/ Start \/ VisitRow \/ BuildIncoming \/ Finish
  \/ setCommitsDone
  \/ \E newStashes \in StashLists : setStashes(newStashes)
  \/ setStashesDone
  \/ \E loading \in BOOLEAN : setLoading(loading)
  \/ toggleDetailsPanelPosition

SpecStore == InitStore /\ [][NextStore]_vars

\* ---- mergeStashesIntoCommits on its own ----
\* The function applied to a commit array (commits) and a stash list
\* (call.arg); call.input is the array as the call leaves it, call.merged the
\* array it returns.
MaxMergeCommits == 3
MaxMergeStashes == 2

MergeCommitLists ==
  UNION { CommitListsFrom(1, n, MaxStoreLinks) : n \in 0..MaxMergeCommits }

MergeStashLists ==
  UNION { { [k \in 1..n |-> [hash |-> MaxMergeCommits + 1 + k, parentHash |-> f[k]]] :
              f \in [1..n -> 1..(MaxMergeCommits + 1)] } : n \in 0..MaxMergeStashes }

InitMerge ==
  /\ commits \in MergeCommitLists
  /\ pc = "merge"
  /\ i = 0
  /\ commitIndexByHash = EmptyMap
  /\ activeLanes = << >>
  /\ reservedLane = EmptyMap
  /\ laneColors = EmptyMap
  /\ nextColorIndex = 0
  /\ reservedByHash = EmptyMap
  /\ nodes = EmptyMap
  /\ maxLanes = 0
  /\ passingLanesByRow = << >>
  /\ published = << >>
  /\ store = InitialStore
  /\ \E stashes \in MergeStashLists :
       call = [kind |-> "merge", arg |-> stashes, input |-> << >>, merged |-> << >>]

ApplyMerge ==
  /\ pc = "merge"
  /\ LET effect == mergeStashesIntoCommits(commits, call.arg)
     IN call' = [call EXCEPT !.input = effect.commits, !.merged = effect.merged]
  /\ pc' = "merged"
  /\ UNCHANGED <<commits, i, commitIndexByHash, activeLanes, reservedLane, laneColors,
                 nextColorIndex, reservedByHash, nodes, maxLanes, passingLanesByRow,
                 published, store>>

NextMerge == ApplyMerge

SpecMerge == InitMerge /\ [][NextMerge]_vars

\* ---- shorthands for the properties ----
Rows == 1..Len(commits)
HashAt(r) == commits[r].hash
ParentsAt(r) == commits[r].parents
Visible(h) == MapHas(commitIndexByHash, h)
Finished == pc = "done" /\ Len(commits) > 0
ConnsOf(r) == nodes[HashAt(r)].parentConnections
VisibleParents(r) == { k \in 1..Len(ParentsAt(r)) : Visible(ParentsAt(r)[k]) }

\* C1: every commit with exactly one parent that is in the list has, in the
\* finished topology, exactly one parent connection, and its toLane is the
\* lane of the parent's node.
ParentContinuity ==
  Finished =>
    \A r \in Rows :
      (Len(ParentsAt(r)) = 1 /\ Visible(ParentsAt(r)[1])) =>
        /\ Len(ConnsOf(r)) = 1
        /\ ConnsOf(r)[1].toLane = nodes[ParentsAt(r)[1]].lane

\* C2: a commit with k visible parents has exactly k parent connections in
\* the finished topology and their toLane values are pairwise distinct.
MergeFanOut ==
  Finished =>
    \A r \in Rows :
      /\ Len(ConnsOf(r)) = Cardinality(VisibleParents(r))
      /\ \A a, b \in 1..Len(ConnsOf(r)) :
           a # b => ConnsOf(r)[a].toLane # ConnsOf(r)[b].toLane

\* C4: the commit of a row is never placed on a lane that is reserved for a
\* different hash, and after the row that lane is free or reserved for one of
\* the commit's own parents.
LaneUniquePerRow ==
  [][(pc = "forward" /\ i' = i + 1) =>
       LET h == HashAt(i + 1)
           lane == nodes'[h].lane
       IN /\ lane < Len(activeLanes) => LaneAt(activeLanes, lane) \in {Null, h}
          /\ lane < Len(activeLanes')
          /\ LaneAt(activeLanes', lane) \in
               {Null} \cup { ParentsAt(i + 1)[k] : k \in 1..Len(ParentsAt(i + 1)) }]_vars

\* A commit that no earlier row names as parent was placed on lane 1 or
\* higher while lane 0 is reserved for another commit.
NamedByEarlierRow(h, r) ==
  \E a \in 1..(r - 1) : \E k \in 1..Len(ParentsAt(a)) : ParentsAt(a)[k] = h

WitnessLaneUnique ==
  /\ pc = "forward"
  /\ i > 1
  /\ ~NamedByEarlierRow(HashAt(i), i)
  /\ nodes[HashAt(i)].lane >= 1
  /\ LaneAt(activeLanes, 0) \notin {Null, HashAt(i)}

\* C5: reservedLane maps h to l exactly when activeLanes[l] = h; hence every
\* hash is reserved on at most one lane.
ReservedLanes == { l \in 0..(Len(activeLanes) - 1) : LaneAt(activeLanes, l) # Null }

ReservationInvariant ==
  /\ \A l \in ReservedLanes :
       /\ MapHas(reservedLane, LaneAt(activeLanes, l))
       /\ reservedLane[LaneAt(activeLanes, l)] = l
  /\ \A h \in DOMAIN reservedLane :
       /\ reservedLane[h] \in 0..(Len(activeLanes) - 1)
       /\ LaneAt(activeLanes, reservedLane[h]) = h

\* A reservation that reReserveParent has moved is pending next to another one.
WitnessReservationMoved ==
  /\ pc = "forward"
  /\ Cardinality(ReservedLanes) >= 2
  /\ \E h \in DOMAIN reservedLane :
       MapHas(reservedByHash, h) /\ reservedByHash[h] = EmptyString

\* C6 (as claimed): the reservation of a lane for a hash ends at the row of
\* that hash and at no other row.
ClearedExactlyOnVisit ==
  [][(pc = "forward" /\ i' = i + 1) =>
       \A l \in ReservedLanes :
         LET x == LaneAt(activeLanes, l)
         IN /\ LaneAt(activeLanes', l) # x => x = HashAt(i + 1)
            /\ x = HashAt(i + 1) => LaneAt(activeLanes', l) # x]_vars

\* C6 (amended): the reservation of a lane for a hash ends at the row of that
\* hash, or at the row of a child whose only or first parent it is and which
\* sits on a lower lane; in that case the hash is reserved on the child's lane
\* afterwards.  At the row of the hash itself the reservation always ends.
ClearedOnVisitOrTransfer ==
  [][(pc = "forward" /\ i' = i + 1) =>
       \A l \in ReservedLanes :
         LET x == LaneAt(activeLanes, l)
             h == HashAt(i + 1)
         IN /\ LaneAt(activeLanes', l) # x =>
                 \/ x = h
                 \/ /\ Len(ParentsAt(i + 1)) > 0
                    /\ x = ParentsAt(i + 1)[1]
                    /\ nodes'[h].lane < l
                    /\ MapHas(reservedLane', x)
                    /\ reservedLane'[x] = nodes'[h].lane
            /\ x = h => (LaneAt(activeLanes', l) # x /\ ~MapHas(reservedLane', x))]_vars

\* A reservation was moved by reReserveParent and later cleared by the visit
\* of the reserved commit.
WitnessMovedThenCleared ==
  /\ pc = "forward"
  /\ \E h \in DOMAIN reservedByHash :
       /\ reservedByHash[h] = EmptyString
       /\ ~MapHas(reservedLane, h)
       /\ MapHas(nodes, h)

\* C7: the lane-to-colour map is injective, and every lane in use (reserved,
\* or holding a placed commit) has a colour.
ColourUniqueness ==
  /\ \A a, b \in DOMAIN laneColors : a # b => laneColors[a] # laneColors[b]
  /\ \A l \in ReservedLanes : MapHas(laneColors, l)
  /\ \A h \in DOMAIN nodes :
       MapHas(laneColors, nodes[h].lane) /\ nodes[h].colorIndex = laneColors[nodes[h].lane]

WitnessThreeColours ==
  /\ pc = "forward"
  /\ Cardinality(ReservedLanes) >= 3
  /\ Cardinality({ laneColors[l] : l \in ReservedLanes }) >= 3

\* C8: the passing lanes of every row are exactly the lanes, other than the
\* row's own, on which a connection from an earlier row to a later row runs,
\* each listed once.
RunLane(r, k) ==
  LET conn == ConnsOf(r)[k]
  IN IF conn.fromLane = conn.toLane \/ Len(ParentsAt(r)) > 1
     THEN conn.toLane ELSE conn.fromLane

\* row is a 0-based row index, as the keys of passingLanesByRow
NaivePassing(row) ==
  { lane \in 0..(maxLanes + MaxCommits) :
      /\ lane # nodes[HashAt(row + 1)].lane
      /\ \E a \in 1..row : \E k \in 1..Len(ConnsOf(a)) :
           /\ Visible(ConnsOf(a)[k].parentHash)
           /\ commitIndexByHash[ConnsOf(a)[k].parentHash] > row
           /\ RunLane(a, k) = lane }

ListedLanes(row) ==
  { passingLanesByRow[row + 1][k].lane : k \in 1..Len(passingLanesByRow[row + 1]) }

PassingEqualsNaive ==
  Finished =>
    /\ Len(passingLanesByRow) = Len(commits)
    /\ \A row \in 0..(Len(commits) - 1) :
         /\ ListedLanes(row) = NaivePassing(row)
         /\ Len(passingLanesByRow[row + 1]) = Cardinality(NaivePassing(row))

WitnessTwoPassing ==
  /\ Finished
  /\ \E row \in 0..(Len(commits) - 1) : Cardinality(ListedLanes(row)) >= 2

\* C9: for every connection from row a to its parent's row, the lane the
\* connection runs on is listed as passing at every row strictly between.
UnbrokenLines ==
  Finished =>
    \A a \in Rows : \A k \in 1..Len(ConnsOf(a)) :
      Visible(ConnsOf(a)[k].parentHash) =>
        \A row \in a..(commitIndexByHash[ConnsOf(a)[k].parentHash] - 1) :
          RunLane(a, k) \in ListedLanes(row)

\* C10: every lane index of the output lies in 0..maxLanes-1, maxLanes is at
\* least 1 + the number of passing lanes of any row, and a merge of 3 visible
\* parents that no earlier row names gives maxLanes >= 3.
OutputLanes ==
  UNION { {nodes[h].lane}
          \cup { nodes[h].parentConnections[k].fromLane : k \in 1..Len(nodes[h].parentConnections) }
          \cup { nodes[h].parentConnections[k].toLane : k \in 1..Len(nodes[h].parentConnections) }
          \cup { nodes[h].incomingConnections[k].fromLane : k \in 1..Len(nodes[h].incomingConnections) }
          : h \in DOMAIN nodes }
  \cup UNION { ListedLanes(row) : row \in 0..(Len(passingLanesByRow) - 1) }

FreshMerge(r) ==
  /\ Cardinality(VisibleParents(r)) >= 3
  /\ \A k \in VisibleParents(r) : ~NamedByEarlierRow(ParentsAt(r)[k], r)

MaxLaneBound ==
  Finished =>
    /\ maxLanes >= 1
    /\ OutputLanes \subseteq 0..(maxLanes - 1)
    /\ \A row \in 0..(Len(commits) - 1) : maxLanes >= 1 + Len(passingLanesByRow[row + 1])
    /\ \A r \in Rows : FreshMerge(r) => maxLanes >= 3

WitnessFreshMerge ==
  /\ Finished
  /\ \E r \in Rows : FreshMerge(r)
  /\ \E h \in DOMAIN nodes : \E k \in 1..Len(nodes[h].parentConnections) :
       nodes[h].parentConnections[k].toLane = maxLanes - 1
       /\ \A g \in DOMAIN nodes : nodes[g].lane < maxLanes - 1

\* C3: any two finished calls on the same commit list returned equal
\* topologies, whatever calls ran in between.
Determinism ==
  \A a, b \in 1..Len(published) :
    published[a].commits = published[b].commits =>
      published[a].topology = published[b].topology

\* The same list of three commits with two lanes was recomputed after a call
\* on a different list.
WitnessRecomputed ==
  /\ Len(published) = 3
  /\ published[1].commits = published[3].commits
  /\ published[2].commits # published[1].commits
  /\ Len(published[1].commits) = 3
  /\ Len(published[2].commits) = 1
  /\ published[1].topology.maxLanes >= 2

\* C11: a single linear chain of N >= 1 commits puts every commit on lane 0
\* with one colour, records N-1 connections, all from lane 0 to lane 0, gives
\* maxLanes = 1 and no passing lane at any row.
IsLinearChain ==
  /\ Len(commits) >= 1
  /\ \A r \in Rows :
       ParentsAt(r) = IF r < Len(commits) THEN << HashAt(r + 1) >> ELSE << >>

LinearChain ==
  (Finished /\ IsLinearChain) =>
    /\ \A r \in Rows :
         /\ nodes[HashAt(r)].lane = 0
         /\ nodes[HashAt(r)].colorIndex = nodes[HashAt(1)].colorIndex
         /\ ConnsOf(r) = IF r < Len(commits)
                         THEN << Conn(HashAt(r + 1), 0, 0, nodes[HashAt(1)].colorIndex) >>
                         ELSE << >>
         /\ passingLanesByRow[r] = << >>
    /\ Len(passingLanesByRow) = Len(commits)
    /\ maxLanes = 1

WitnessLinearChain ==
  /\ Finished
  /\ IsLinearChain
  /\ Len(commits) >= 4

\* C12: for M(parents A, B), A(), B() the merge M is on lane 0 with a
\* connection 0 -> 0 to A and a connection 0 -> 1 to B, A is on lane 0, B on
\* lane 1, and the row of A lists exactly one passing lane: lane 1, in the
\* colour of B's lane.
IsTwoParentMerge ==
  commits = << [hash |-> 1, parents |-> << 2, 3 >>],
               [hash |-> 2, parents |-> << >>],
               [hash |-> 3, parents |-> << >>] >>

TwoParentMerge ==
  (Finished /\ IsTwoParentMerge) =>
    /\ nodes[1].lane = 0
    /\ Len(nodes[1].parentConnections) = 2
    /\ nodes[1].parentConnections[1] = Conn(2, 0, 0, nodes[1].colorIndex)
    /\ nodes[1].parentConnections[2] = Conn(3, 0, 1, nodes[3].colorIndex)
    /\ nodes[2].lane = 0
    /\ nodes[3].lane = 1
    /\ nodes[3].colorIndex # nodes[1].colorIndex
    /\ passingLanesByRow[2] = << [lane |-> 1, colorIndex |-> nodes[3].colorIndex] >>

WitnessTwoParentMerge ==
  /\ Finished
  /\ IsTwoParentMerge
  /\ Len(passingLanesByRow[2]) = 1

\* C13: no connection is recorded to a hash that is not in the list, and a
\* row whose commit has no parent, or a single parent that is not in the
\* list, records no connection, reserves nothing and leaves its lane free.
Unparented(r) ==
  \/ Len(ParentsAt(r)) = 0
  \/ Len(ParentsAt(r)) = 1 /\ ~Visible(ParentsAt(r)[1])

MissingParentsSkipped ==
  [][(pc = "forward" /\ i' = i + 1) =>
       LET h == HashAt(i + 1)
       IN /\ \A g \in DOMAIN nodes' : \A k \in 1..Len(nodes'[g].parentConnections) :
               Visible(nodes'[g].parentConnections[k].parentHash)
          /\ Unparented(i + 1) =>
               /\ nodes'[h].parentConnections = << >>
               /\ LaneAt(activeLanes', nodes'[h].lane) = Null
               /\ DOMAIN reservedLane' = (DOMAIN reservedLane) \ {h}
               /\ \A x \in DOMAIN reservedLane' : reservedLane'[x] = reservedLane[x]]_vars

\* The lane left free by a commit whose only parent is outside the list was
\* claimed by the next row; a merge with a parent outside the list was placed.
WitnessMissingParent ==
  /\ pc = "forward"
  /\ i >= 3
  /\ Len(ParentsAt(i - 1)) = 1
  /\ ~Visible(ParentsAt(i - 1)[1])
  /\ ~NamedByEarlierRow(HashAt(i), i)
  /\ nodes[HashAt(i)].lane = nodes[HashAt(i - 1)].lane
  /\ \E r \in 1..(i - 2) :
       Len(ParentsAt(r)) >= 2 /\ \E k \in 1..Len(ParentsAt(r)) : ~Visible(ParentsAt(r)[k])

\* C14: the call on the empty list returns maxLanes = 0 with empty nodes,
\* passingLanesByRow and commitIndexByHash; every call on a non-empty list
\* returns maxLanes >= 1.
EmptyInput ==
  \A k \in 1..Len(published) :
    IF Len(published[k].commits) = 0
    THEN published[k].topology = GraphTopology(EmptyMap, 0, << >>, EmptyMap)
    ELSE published[k].topology.maxLanes >= 1

\* The empty list was handed in after a call on a list of two lanes.
WitnessEmptyAfterRun ==
  /\ Len(published) = 2
  /\ published[1].topology.maxLanes >= 2
  /\ published[2].commits = << >>
  /\ pc = "done"

\* C18: a commit whose hash is reserved is placed on the lane it is reserved
\* on; any other commit is placed on the lowest-indexed free lane, or on a new
\* lane appended at the end when no lane is free.
FreeLanes == { l \in 0..(Len(activeLanes) - 1) : LaneAt(activeLanes, l) = Null }

LaneAllocationRule ==
  [][(pc = "forward" /\ i' = i + 1) =>
       LET h == HashAt(i + 1)
           lane == nodes'[h].lane
       IN /\ MapHas(reservedLane, h) => lane = reservedLane[h]
          /\ (~MapHas(reservedLane, h) /\ FreeLanes # {}) =>
               (lane \in FreeLanes /\ \A l \in FreeLanes : lane <= l)
          /\ (~MapHas(reservedLane, h) /\ FreeLanes = {}) => lane = Len(activeLanes)
          /\ lane < Len(activeLanes')
          /\ (Len(ParentsAt(i + 1)) <= 1) =>
               Len(activeLanes') = IF lane = Len(activeLanes)
                                   THEN Len(activeLanes) + 1 ELSE Len(activeLanes)]_vars

\* A commit without parents that no row reserved was placed on free lane 1,
\* between the reserved lanes 0 and 2.
WitnessFreeLaneReused ==
  /\ pc = "forward"
  /\ i >= 1
  /\ ~NamedByEarlierRow(HashAt(i), i)
  /\ Len(ParentsAt(i)) = 0
  /\ nodes[HashAt(i)].lane = 1
  /\ Len(activeLanes) >= 3
  /\ LaneAt(activeLanes, 0) # Null
  /\ LaneAt(activeLanes, 2) # Null

\* C19: when the only or first parent P of the commit placed on lane a is
\* reserved on another lane e, then for a < e handling that parent frees lane
\* e, reserves P on lane a and records the connection a -> a, and for a > e it
\* leaves P on lane e, records the connection a -> e and leaves lane a free;
\* a reservation that is not of the first parent is never moved by the row.
FirstParentConflict(r) ==
  /\ Len(ParentsAt(r)) >= 1
  /\ Visible(ParentsAt(r)[1])
  /\ MapHas(reservedLane, ParentsAt(r)[1])
  /\ reservedLane[ParentsAt(r)[1]] # AssignedLane(activeLanes, reservedLane, HashAt(r))

LowerLaneWins ==
  [][(pc = "forward" /\ i' = i + 1) =>
       LET r == i + 1
           h == HashAt(r)
           a == nodes'[h].lane
           c == nodes'[h].colorIndex
       IN /\ FirstParentConflict(r) =>
               LET P == ParentsAt(r)[1]
                   e == reservedLane[P]
                   st == PrimaryParent(PlaceCommit(commits[r]), h, P, a, c)
               IN IF a < e
                  THEN /\ LaneAt(st.activeLanes, e) = Null
                       /\ LaneAt(st.activeLanes, a) = P
                       /\ LaneAt(activeLanes', e) # P
                       /\ LaneAt(activeLanes', a) = P
                       /\ reservedLane'[P] = a
                       /\ nodes'[h].parentConnections[1] = Conn(P, a, a, c)
                  ELSE /\ LaneAt(st.activeLanes, e) = P
                       /\ LaneAt(st.activeLanes, a) = Null
                       /\ LaneAt(activeLanes', e) = P
                       /\ reservedLane'[P] = e
                       /\ nodes'[h].parentConnections[1] = Conn(P, a, e, c)
          /\ \A x \in DOMAIN reservedLane :
               (x # h /\ ~(Len(ParentsAt(r)) >= 1 /\ x = ParentsAt(r)[1])) =>
                 /\ MapHas(reservedLane', x)
                 /\ reservedLane'[x] = reservedLane[x]
                 /\ LaneAt(activeLanes', reservedLane[x]) = x]_vars

\* A merge took over the reservation of its first parent, and one of its other
\* parents was already reserved on a higher lane and stayed there.
WitnessMergeTookOver ==
  /\ pc = "forward"
  /\ i >= 1
  /\ Len(ParentsAt(i)) >= 2
  /\ MapHas(reservedByHash, ParentsAt(i)[1])
  /\ reservedByHash[ParentsAt(i)[1]] = EmptyString
  /\ MapHas(reservedLane, ParentsAt(i)[1])
  /\ reservedLane[ParentsAt(i)[1]] = nodes[HashAt(i)].lane
  /\ NamedByEarlierRow(ParentsAt(i)[2], i)
  /\ MapHas(reservedLane, ParentsAt(i)[2])
  /\ reservedLane[ParentsAt(i)[2]] > nodes[HashAt(i)].lane

\* C20: when the reservation of a parent moves from lane e to a lower lane,
\* the connection of the earlier row that held the reservation on lane e is
\* patched to end on the new lane; so in the finished topology no connection
\* of a row that once held the reservation of a parent ends on a lane other
\* than the lane of that parent.
HeldReservation(r, k) ==
  LET conn == ConnsOf(r)[k]
  IN \/ conn.fromLane = conn.toLane
     \/ /\ Len(ParentsAt(r)) >= 2
        /\ ParentsAt(r)[1] # conn.parentHash
        /\ ~NamedByEarlierRow(conn.parentHash, r)

RetroactivePatch ==
  [][(pc = "forward" /\ i' = i + 1 /\ FirstParentConflict(i + 1)) =>
       LET P == ParentsAt(i + 1)[1]
           e == reservedLane[P]
           a == nodes'[HashAt(i + 1)].lane
       IN a < e =>
            \A r \in 1..i : \A k \in 1..Len(ConnsOf(r)) :
              (ConnsOf(r)[k].parentHash = P /\ ConnsOf(r)[k].toLane = e /\ HeldReservation(r, k))
                => nodes'[HashAt(r)].parentConnections[k].toLane = a]_vars

\* C15: on every finite list, also one with repeated hashes, parents outside
\* the list, a commit that is its own parent or a parent on an earlier row
\* than its child, the call reaches its return with a topology that has a node
\* for every hash of the list and a passing-lane list for every row.
Returned ==
  /\ pc = "done"
  /\ Len(published) = 1
  /\ published[1].commits = commits
  /\ published[1].topology = GraphTopology(nodes, maxLanes, passingLanesByRow, commitIndexByHash)
  /\ DOMAIN nodes = { commits[r].hash : r \in 1..Len(commits) }
  /\ DOMAIN commitIndexByHash = DOMAIN nodes
  /\ Len(passingLanesByRow) = Len(commits)

Totality == <>Returned

\* A call returned on a list with a repeated hash, a commit that is its own
\* parent, a parent on an earlier row than its child and a parent outside it.
WitnessMalformed ==
  /\ Returned
  /\ \E a, b \in Rows : a < b /\ HashAt(a) = HashAt(b)
  /\ \E r \in Rows : \E k \in 1..Len(ParentsAt(r)) : ParentsAt(r)[k] = HashAt(r)
  /\ \E a, b \in Rows : a < b /\ HashAt(a) # HashAt(b)
       /\ \E k \in 1..Len(ParentsAt(b)) : ParentsAt(b)[k] = HashAt(a)
  /\ \E r \in Rows : \E k \in 1..Len(ParentsAt(r)) : ~Visible(ParentsAt(r)[k])

StoreInSync ==
  pc = "idle" =>
    /\ store.mergedCommits = mergeStashesIntoCommits(store.commits, store.stashes).merged
    /\ IF published = << >>
       THEN store.mergedCommits = << >> /\ store.topology = emptyTopology
       ELSE /\ published[Len(published)].commits = store.mergedCommits
            /\ published[Len(published)].topology = store.topology

PublishedMatchesRows ==
  /\ []StoreInSync
  /\ [][(store'.mergedCommits # store.mergedCommits \/ store'.topology # store.topology)
          => (pc = "done" /\ call.kind \in {"setCommits", "setStashes"})]_vars

\* Both setCommits and setStashes have run, another setter as well: the store
\* holds two commits, a stash row merged between them and a topology of two
\* lanes.
WitnessStashBetween ==
  /\ pc = "idle"
  /\ Len(store.commits) = 2
  /\ Len(store.stashes) = 1
  /\ Len(store.mergedCommits) = 3
  /\ store.mergedCommits[2].hash = store.stashes[1].hash
  /\ store.topology.maxLanes = 2
  /\ store.loading = FALSE
  /\ store.detailsPanelPosition = "right"

\* ---- the state of a row between two of its parents ----
\* BeforeParent(r, p): the locals of row r when the parent at position p
\* (0-based) is about to be handled; BeforeParent(r, Len(parents)) is the
\* state after the last parent.
BeforeParent(r, p) ==
  LET st0 == PlaceCommit(commits[r])
      a == AssignedLane(activeLanes, reservedLane, HashAt(r))
  IN MergeParents(st0, HashAt(r), SubSeq(ParentsAt(r), 1, p), 0, a, st0.laneColors[a])

\* The secondary parents of row r that are visible and not reserved when
\* their turn comes: positions p >= 1 (0-based).
NewBranchParents(r) ==
  IF Len(ParentsAt(r)) < 2 THEN {}
  ELSE { p \in 1..(Len(ParentsAt(r)) - 1) :
           /\ Visible(ParentsAt(r)[p + 1])
           /\ ~MapHas(BeforeParent(r, p).reservedLane, ParentsAt(r)[p + 1]) }

FreeIn(lanes) == { l \in 0..(Len(lanes) - 1) : LaneAt(lanes, l) = Null }

\* C21: a visible, not yet reserved secondary parent of a merge on lane a is
\* reserved on lane a+1 if that lane is free or is the first lane past the
\* lane set; otherwise on lane a-1 if it exists and is free; otherwise on the
\* lowest free lane, or on a new lane appended at the end when none is free.
\* The lane chosen is never one that is reserved at that moment.
SecondaryLaneChoice ==
  [][(pc = "forward" /\ i' = i + 1) =>
       LET r == i + 1
           a == nodes'[HashAt(r)].lane
       IN /\ BeforeParent(r, Len(ParentsAt(r))).activeLanes = activeLanes'
          /\ \A p \in NewBranchParents(r) :
               LET P == ParentsAt(r)[p + 1]
                   before == BeforeParent(r, p)
                   after == BeforeParent(r, p + 1)
                   lanes == before.activeLanes
                   free == FreeIn(lanes)
                   b == after.reservedLane[P]
                   expected ==
                     IF a + 1 = Len(lanes) \/ (a + 1) \in free THEN a + 1
                     ELSE IF a > 0 /\ (a - 1) \in free THEN a - 1
                     ELSE IF free # {} THEN CHOOSE l \in free : \A m \in free : l <= m
                     ELSE Len(lanes)
               IN /\ a < Len(lanes)
                  /\ b = expected
                  /\ b < Len(lanes) => LaneAt(lanes, b) = Null
                  /\ Len(after.activeLanes) = IF b = Len(lanes)
                                              THEN Len(lanes) + 1 ELSE Len(lanes)
                  /\ LaneAt(after.activeLanes, b) = P
                  /\ \A l \in 0..(Len(lanes) - 1) :
                       l # b => LaneAt(after.activeLanes, l) = LaneAt(lanes, l)
                  /\ after.parentConnections[Len(after.parentConnections)].toLane = b
                  /\ after.parentConnections[Len(after.parentConnections)].parentHash = P]_vars

\* A merge on lane 1 or higher found the lane to its right reserved and put a
\* secondary parent that no earlier row names on the free lane to its left.
WitnessBranchToTheLeft ==
  /\ pc = "forward"
  /\ i >= 1
  /\ Len(ParentsAt(i)) >= 2
  /\ \E k \in 2..Len(ParentsAt(i)) :
       LET P == ParentsAt(i)[k]
       IN /\ Visible(P)
          /\ ~NamedByEarlierRow(P, i)
          /\ MapHas(reservedLane, P)
          /\ reservedLane[P] = nodes[HashAt(i)].lane - 1
          /\ nodes[HashAt(i)].lane + 1 < Len(activeLanes)
          /\ LaneAt(activeLanes, nodes[HashAt(i)].lane + 1) # Null

\* C22: the colour index given to a visible, not yet reserved secondary parent
\* of a merge, and to the connection to it, is one that the pass has not
\* handed out before: the colours handed out so far are 0..nextColorIndex-1,
\* so a fresh one is the counter's value at that moment, also when the branch
\* lane is a lane index that was in use earlier in the pass.
FreshBranchColour ==
  [][(pc = "forward" /\ i' = i + 1) =>
       LET r == i + 1
       IN \A p \in NewBranchParents(r) :
            LET P == ParentsAt(r)[p + 1]
                before == BeforeParent(r, p)
                after == BeforeParent(r, p + 1)
                b == after.reservedLane[P]
                conn == after.parentConnections[Len(after.parentConnections)]
            IN /\ conn.colorIndex = before.nextColorIndex
               /\ after.laneColors[b] = before.nextColorIndex
               /\ \A l \in DOMAIN before.laneColors :
                    before.laneColors[l] # conn.colorIndex]_vars

\* C23: the colour of a lane index is set when the lane index is first used,
\* to the next value of a counter that starts at 0, and never changes
\* afterwards; every commit placed on the lane carries that colour, so two
\* commits on one lane have the same colour index.
ColoursHandedOut == { laneColors[l] : l \in DOMAIN laneColors }

ColourFixedPerLane ==
  /\ [](pc = "forward" =>
          /\ DOMAIN laneColors = 0..(Len(activeLanes) - 1)
          /\ ColoursHandedOut = 0..(nextColorIndex - 1)
          /\ Cardinality(DOMAIN laneColors) = nextColorIndex
          /\ \A g, h \in DOMAIN nodes :
               /\ nodes[h].colorIndex = laneColors[nodes[h].lane]
               /\ nodes[g].lane = nodes[h].lane => nodes[g].colorIndex = nodes[h].colorIndex)
  /\ [][pc' = "forward" =>
          /\ pc = "start" => (laneColors' = EmptyMap /\ nextColorIndex' = 0)
          /\ pc = "forward" =>
               /\ \A l \in DOMAIN laneColors :
                    MapHas(laneColors', l) /\ laneColors'[l] = laneColors[l]
               /\ { laneColors'[l] : l \in (DOMAIN laneColors') \ (DOMAIN laneColors) }
                    = nextColorIndex..(nextColorIndex' - 1)
               /\ nodes'[HashAt(i + 1)].colorIndex = laneColors'[nodes'[HashAt(i + 1)].lane]]_vars

\* A commit that no earlier row names was placed on a lane that an earlier
\* commit had been placed on, while a second lane has its own colour.
WitnessLaneReusedSameColour ==
  /\ pc = "forward"
  /\ i >= 2
  /\ nextColorIndex >= 2
  /\ ~NamedByEarlierRow(HashAt(i), i)
  /\ \E a \in 1..(i - 1) :
       /\ nodes[HashAt(a)].lane = nodes[HashAt(i)].lane
       /\ nodes[HashAt(a)].colorIndex = nodes[HashAt(i)].colorIndex

\* C24: in the finished topology the incoming connections of a commit are,
\* entry for entry, the parent connections (as they are after every patch)
\* of all commits that name it as parent: one entry per such connection, in
\* the connection's colour, on the lane toLane for a same-lane connection and
\* for a cross-lane connection of a merge commit, and on the child's lane
\* fromLane for a cross-lane connection of a commit with a single parent.
ConnectionsTo(h) ==
  { rk \in Rows \X (1..MaxParents) :
      rk[2] <= Len(ConnsOf(rk[1])) /\ ConnsOf(rk[1])[rk[2]].parentHash = h }

MirrorOf(r, k) ==
  LET conn == ConnsOf(r)[k]
  IN [fromLane |-> IF conn.fromLane # conn.toLane /\ Len(ParentsAt(r)) = 1
                   THEN conn.fromLane ELSE conn.toLane,
      colorIndex |-> conn.colorIndex]

IncomingMirrorsParents ==
  Finished =>
    \A h \in DOMAIN nodes :
      LET inc == nodes[h].incomingConnections
      IN /\ Len(inc) = Cardinality(ConnectionsTo(h))
         /\ \A rk \in ConnectionsTo(h) :
              Cardinality({ k \in 1..Len(inc) : inc[k] = MirrorOf(rk[1], rk[2]) })
                = Cardinality({ qk \in ConnectionsTo(h) :
                                  MirrorOf(qk[1], qk[2]) = MirrorOf(rk[1], rk[2]) })
         /\ \A k \in 1..Len(inc) :
              \E rk \in ConnectionsTo(h) : inc[k] = MirrorOf(rk[1], rk[2])

\* A merge whose connection to its first parent was patched to a lower lane
\* is mirrored on the patched lane, next to a second incoming entry that
\* arrives on the parent's own lane.
WitnessPatchedMirror ==
  /\ Finished
  /\ \E r \in Rows :
       /\ Len(ParentsAt(r)) >= 2
       /\ Len(ConnsOf(r)) >= 1
       /\ ConnsOf(r)[1].parentHash = ParentsAt(r)[1]
       /\ ~NamedByEarlierRow(ParentsAt(r)[1], r)
       /\ ConnsOf(r)[1].toLane < ConnsOf(r)[1].fromLane
       /\ Len(nodes[ParentsAt(r)[1]].incomingConnections) >= 2
       /\ \E k \in 1..Len(nodes[ParentsAt(r)[1]].incomingConnections) :
            nodes[ParentsAt(r)[1]].incomingConnections[k] = MirrorOf(r, 1)

\* C25: hasConnectionFromAbove of a commit is true exactly when one of its
\* incoming connections arrives on the commit's own lane; it is false for a
\* commit that no row of the list names as parent.
ArrivesOnOwnLane(h) ==
  \E k \in 1..Len(nodes[h].incomingConnections) :
    nodes[h].incomingConnections[k].fromLane = nodes[h].lane

NamedByAnyRow(h) ==
  \E r \in Rows : \E k \in 1..Len(ParentsAt(r)) : ParentsAt(r)[k] = h

HashesOf(cs) == { cs[r].hash : r \in 1..Len(cs) }

UniqueHashes == \A a, b \in Rows : a # b => HashAt(a) # HashAt(b)

OutputComplete ==
  Finished =>
    /\ DOMAIN nodes = HashesOf(commits)
    /\ \A h \in DOMAIN nodes : nodes[h].hash = h
    /\ DOMAIN commitIndexByHash = HashesOf(commits)
    /\ \A r \in Rows :
         (\A q \in (r + 1)..Len(commits) : HashAt(q) # HashAt(r)) =>
           commitIndexByHash[HashAt(r)] = r - 1
    /\ \A r \in Rows : commitIndexByHash[HashAt(r)] >= r - 1
    /\ Len(passingLanesByRow) = Len(commits)
    /\ published[Len(published)].topology =
         GraphTopology(nodes, maxLanes, passingLanesByRow, commitIndexByHash)
    /\ UniqueHashes =>
         /\ Cardinality(DOMAIN nodes) = Len(commits)
         /\ \A r \in Rows : commitIndexByHash[HashAt(r)] = r - 1

\* A list in which the hash of the first row comes again on the last row was
\* returned: that hash is indexed at the last row and the nodes are fewer
\* than the rows.
WitnessDuplicateHash ==
  /\ Finished
  /\ Len(commits) >= 3
  /\ HashAt(1) = HashAt(Len(commits))
  /\ HashAt(2) # HashAt(1)
  /\ commitIndexByHash[HashAt(1)] = Len(commits) - 1
  /\ commitIndexByHash[HashAt(2)] = 1
  /\ Cardinality(DOMAIN nodes) < Len(commits)

\* C27: the list mergeStashesIntoCommits returns holds the original commits
\* in their order and one single-parent row per stash; the row of a stash
\* whose parent is in the list stands above its parent with only stash rows
\* between the two, the row of a stash whose parent is not in the list stands
\* above every original commit, and without stashes the list is returned as
\* it is.
StashRowAt(merged, stash) ==
  CHOOSE j \in 1..Len(merged) : merged[j].hash = stash.hash

IsOriginalRow(merged, j) == merged[j].hash \in HashesOf(commits)

MainlineLeft ==
  /\ [](Finished =>
          \A r \in Rows :
            (Len(ParentsAt(r)) >= 1 /\ Visible(ParentsAt(r)[1])) =>
              nodes[ParentsAt(r)[1]].lane <= nodes[HashAt(r)].lane)
  /\ [][pc = "forward" =>
          /\ \A h \in (DOMAIN reservedLane) \cap (DOMAIN reservedLane') :
               reservedLane'[h] <= reservedLane[h]
          /\ i' = i + 1 =>
               /\ \A h \in (DOMAIN reservedLane) \ {HashAt(i + 1)} : MapHas(reservedLane', h)
               /\ MapHas(reservedLane, HashAt(i + 1)) =>
                    nodes'[HashAt(i + 1)].lane = reservedLane[HashAt(i + 1)]
               /\ (Len(ParentsAt(i + 1)) >= 1 /\ Visible(ParentsAt(i + 1)[1])) =>
                    /\ MapHas(reservedLane', ParentsAt(i + 1)[1])
                    /\ reservedLane'[ParentsAt(i + 1)[1]] <= nodes'[HashAt(i + 1)].lane]_vars

\* A parent whose reservation was taken over by a child on a lower lane ended
\* up strictly left of the child that reserved it first.
WitnessParentLeftOfChild ==
  /\ Finished
  /\ \E r \in Rows :
       /\ Len(ParentsAt(r)) >= 1
       /\ Visible(ParentsAt(r)[1])
       /\ ~NamedByEarlierRow(ParentsAt(r)[1], r)
       /\ MapHas(reservedByHash, ParentsAt(r)[1])
       /\ reservedByHash[ParentsAt(r)[1]] = EmptyString
       /\ nodes[ParentsAt(r)[1]].lane < nodes[HashAt(r)].lane

\* C29: a lane is reserved only for a commit whose row is still to come, so
\* every reservation is cleared no later than at the row of the commit it is
\* for; when the pass has ended no lane is reserved and reservedLane is
\* empty.
PassEnded ==
  /\ Len(commits) > 0
  /\ \/ pc = "forward" /\ i = Len(commits)
     \/ pc \in {"incoming", "done"}

ReservationsCleared ==
  /\ pc = "forward" =>
       /\ \A l \in ReservedLanes :
            /\ Visible(LaneAt(activeLanes, l))
            /\ commitIndexByHash[LaneAt(activeLanes, l)] >= i
       /\ \A h \in DOMAIN reservedLane :
            Visible(h) /\ commitIndexByHash[h] >= i
  /\ PassEnded =>
       /\ \A k \in 1..Len(activeLanes) : activeLanes[k] = Null
       /\ reservedLane = EmptyMap

\* The pass ended with three lanes, all free, after a reservation had been
\* moved to a lower lane on the way.
WitnessAllLanesFree ==
  /\ pc = "forward"
  /\ i = Len(commits)
  /\ Len(activeLanes) >= 3
  /\ ReservedLanes = {}
  /\ \E h \in DOMAIN reservedByHash : reservedByHash[h] = EmptyString

\* C30: every parent connection starts on the lane of the commit that owns
\* it, and a connection to the only or first parent never ends on a higher
\* lane than it starts on, patched or not; a connection that ends on a higher
\* lane is one to a secondary parent of a merge.
ConnectionShape ==
  \A h \in DOMAIN nodes :
    \A k \in 1..Len(nodes[h].parentConnections) :
      LET conn == nodes[h].parentConnections[k]
          parents == commits[commitIndexByHash[h] + 1].parents
      IN /\ conn.fromLane = nodes[h].lane
         /\ conn.parentHash = parents[1] => conn.toLane <= conn.fromLane
         /\ conn.toLane > conn.fromLane =>
              /\ Len(parents) >= 2
              /\ \E p \in 2..Len(parents) : parents[p] = conn.parentHash

\* In one finished topology a connection to a first parent was patched to a
\* lower lane and a connection to a secondary parent ends on a higher lane.
WitnessBothBends ==
  /\ Finished
  /\ \E r \in Rows :
       /\ Len(ConnsOf(r)) >= 1
       /\ ConnsOf(r)[1].parentHash = ParentsAt(r)[1]
       /\ ~NamedByEarlierRow(ParentsAt(r)[1], r)
       /\ ConnsOf(r)[1].toLane < ConnsOf(r)[1].fromLane
  /\ \E r \in Rows : \E k \in 1..Len(ConnsOf(r)) :
       ConnsOf(r)[k].toLane > ConnsOf(r)[k].fromLane

====
